---- MODULE Spec2Model ----
(***************************************************************************)
(* Model of the plates-mobile front end.                                   *)
(*                                                                         *)
(*   SpecGesture  : the root view's tap / long-press logic                 *)
(*                  (src/src/routes/+page.svelte)                          *)
(*   SpecProvider : one provider subscription (time, battery, weather)     *)
(*                  (src/src/modules/battery.ts, src/unnamed/part_002)     *)
(*                                                                         *)
(*   SpecTutorial : the first-run tutorial's step machine                  *)
(*                  (src/unnamed/part_001)                                 *)
(*   SpecSpeech   : the speech component and the text-entry overlay it     *)
(*                  mounts (src/src/components/SpeechToText.svelte,        *)
(*                  PredictiveTextInput.svelte)                            *)
(*   SpecResults  : the results page                                       *)
(*                  (src/src/components/ResultPage.svelte)                 *)
(*   SpecTeardown : the root view's gesture logic and its three provider   *)
(*                  intervals, up to and after the view's teardown         *)
(*                  (src/src/routes/+page.svelte, onMount)                 *)
(*                                                                         *)
(* Time is counted in steps of half the long-press threshold.  A timer     *)
(* that is due fires before any further input event is dispatched.         *)
(***************************************************************************)
EXTENDS Integers, Sequences, FiniteSets, TLC

VARIABLES
    \* ---- root view (+page.svelte) ----
    isFirstRun,        \* let isFirstRun
    firstRunCheck,     \* the invoke("is_first_run") promise: "pending" | "settled"
    longPressTimer,    \* let longPressTimer: number | null  (NoTimer is null)
    isLongPressing,    \* let isLongPressing
    timers,            \* the browser's pending setTimeout timers: id -> ms left
    fired,             \* calls made on speechToTextComponent by the latest handler
    calls,             \* calls made on speechToTextComponent in this interaction
    \* ---- the pointer (the browser's side of the event bindings) ----
    device,            \* "mouse" | "touch": the device of the current interaction
    pointers,          \* held buttons / fingers: pointer -> ms since its press-down
    clickPending,      \* a click event is queued behind the release
    lastEvent,         \* the DOM event (or callback) dispatched by the latest step
    multi,             \* a second pointer went down during this interaction
    raced,             \* isFirstRun was true at some point of this interaction
    released           \* how the pointers of this interaction have left so far:
                       \* "none" | "short" (each by a press-up under LongPressMs)
                       \* | "long" (one by a later press-up) | "cancel"

VARIABLES
    \* ---- one provider subscription ----
    provider,          \* which setup*Interval function this subscription is
    subscribed,        \* setup*Interval has been called
    intervalOn,        \* the setInterval handle is live
    cancelCount,       \* calls of the returned unsubscribe function so far
    tickCount,         \* periods elapsed since subscription
    inflight,          \* fetches started and not yet settled
    nextFetch,         \* number of the next fetch
    shown,             \* the value the subscriber's callback last stored
    deliveries,        \* the callback's invocations, in order
    unhandled,         \* a rejection reached no handler
    settled,           \* the bridge's answers, in the order they came
    provStep           \* the subscription operation run by the latest step

VARIABLES
    \* ---- tutorial (part_001) ----
    currentStep,       \* let currentStep
    touchStartY,       \* let touchStartY
    tutPending,        \* bridge calls made by the tutorial and not yet answered
    tutCalls,          \* number of bridge calls the tutorial has made
    tutEmitted,        \* tutorialComplete events dispatched to the parent
    tutUnhandled,      \* a rejected bridge call reached no handler
    tutMounted,        \* the parent still shows the tutorial
    \* ---- the browser's side of the tutorial's listeners ----
    tutEvent,          \* the DOM event being (or last) dispatched
    tutQueue,          \* listeners of tutEvent still to run, in dispatch order
    touchDown,         \* where the touch in progress began (NoTouch: none)
    tutClickPending,   \* a click follows the touch that just ended
    gestures,          \* user gestures so far
    \* ---- history ----
    tutDid,            \* what the latest listener or continuation did
    tutAnswered,       \* the bridge's latest answer to the tutorial
    stepBefore,        \* currentStep before the latest listener ran
    stepAtEvent,       \* currentStep when tutEvent was raised
    launcherAtEvent,   \* launcherCalls when tutEvent was raised
    advanceCalls,      \* calls of nextStep so far
    retreatCalls,      \* calls of prevStep so far
    completeCalls,     \* invocations of complete_tutorial so far
    launcherCalls      \* invocations of set_as_launcher so far

VARIABLES
    \* ---- root view lifecycle (+page.svelte, onMount) ----
    mounted,           \* the root view is mounted
    intervals,         \* the provider intervals onMount set up and nothing cleared
    intervalRuns       \* interval callbacks run so far

VARIABLES
    \* ---- SpeechToText.svelte ----
    isModelLoaded,
    isRecording,
    transcription,
    errorMessage,
    isProcessing,
    showTranscription,
    showTextInput,
    \* ---- PredictiveTextInput.svelte ----
    inputText,         \* the textarea's value, as a sequence of characters
    isVisible,
    predictions,       \* let predictions: string[]
    isLoading,
    selectedIndex,     \* -1, or the 0-based index of the highlighted prediction
    predictionTimeoutHandler,  \* the timeout it holds is still to fire
    suggestPending,    \* Suggest.google calls made and not yet answered
    suggestCalls,      \* number of Suggest.google calls made so far
    \* ---- the bridge and the listeners of the two components ----
    sttPending,        \* bridge calls made and not yet answered
    sttCalls,          \* number of bridge calls made so far
    sttEmitted,        \* events SpeechToText has dispatched to its parent, in order
    textEmitted,       \* events the text-entry overlay has dispatched, in order
    \* ---- history ----
    sttOps,            \* calls made on the two components from outside so far
    sttStep,           \* the function the latest step ran
    sttDid,            \* what that function did
    sttSilent,         \* functions that have returned at their first guard
    sttAnswered,       \* the bridge's latest answer to the two components
    sttLongPress       \* the long-press call the root view delivered last

VARIABLES
    \* ---- ResultPage.svelte ----
    resultsQuery,      \* export let query, as a sequence of characters
    resultsVisible,    \* export let isVisible
    results,
    resultsLoading,    \* let isLoading
    resultsError,      \* let errorMessage
    resultsPending,    \* bridge calls the page has made and not yet had answered
    resultsCalls,      \* number of bridge calls the page has made
    resultsClosed,     \* resultsClosed events dispatched to the parent
    \* ---- history ----
    resultsOps,        \* calls made on the page from outside so far
    resultsStep,       \* the function the latest step ran
    resultsAnswered,   \* the bridge's latest answer to the page
    resultsLatest      \* the search the latest show() started, and its answer

gestureVars == <<isFirstRun, firstRunCheck, longPressTimer, isLongPressing, timers,
                 fired, calls, device, pointers, clickPending, lastEvent, multi,
                 raced, released>>

providerVars == <<provider, subscribed, intervalOn, cancelCount, tickCount, inflight,
                  nextFetch, shown, deliveries, unhandled, settled, provStep>>

tutorialVars == <<currentStep, touchStartY, tutPending, tutCalls, tutEmitted,
                  tutUnhandled, tutMounted, tutEvent, tutQueue, touchDown,
                  tutClickPending, gestures, tutDid, tutAnswered, stepBefore, stepAtEvent,
                  launcherAtEvent, advanceCalls, retreatCalls, completeCalls,
                  launcherCalls>>

rootVars == <<mounted, intervals, intervalRuns>>

speechVars == <<isModelLoaded, isRecording, transcription, errorMessage, isProcessing,
                showTranscription, showTextInput, inputText, isVisible, predictions,
                isLoading, selectedIndex, predictionTimeoutHandler, suggestPending,
                suggestCalls, sttPending, sttCalls, sttEmitted, textEmitted, sttOps,
                sttStep, sttDid, sttSilent, sttAnswered, sttLongPress>>

resultsVars == <<resultsQuery, resultsVisible, results, resultsLoading, resultsError,
                 resultsPending, resultsCalls, resultsClosed, resultsOps, resultsStep,
                 resultsAnswered, resultsLatest>>

vars == <<gestureVars, providerVars, tutorialVars, rootVars, speechVars, resultsVars>>

\* every variable that is not the root view's gesture state
nonGestureVars == <<providerVars, tutorialVars, rootVars, speechVars, resultsVars>>

\* every variable that is not a provider subscription's state
nonProviderVars == <<gestureVars, tutorialVars, rootVars, speechVars, resultsVars>>

\* every variable that is not the tutorial's state
nonTutorialVars == <<gestureVars, providerVars, rootVars, speechVars, resultsVars>>

\* every variable that is not the speech component's or its overlay's state
nonSpeechVars == <<gestureVars, providerVars, tutorialVars, rootVars, resultsVars>>

\* every variable that is not the results page's state
nonResultsVars == <<gestureVars, providerVars, tutorialVars, rootVars, speechVars>>

-----------------------------------------------------------------------------
\* Program constants and bounds

LongPressMs == 500                 \* setTimeout(..., 500)
TickMs      == LongPressMs \div 2  \* granularity of the model's clock
NoTimer     == 0                   \* longPressTimer = null

MaxPointers == 2    \* buttons / fingers that can be held at once
MaxTimers   == 3    \* pending timers at once
MaxCalls    == 4    \* length kept of the per-interaction call log

Pointers == 1..MaxPointers
TimerIds == 1..(MaxTimers + 2)
Devices  == {"mouse", "touch"}

EmptyFn == [x \in {} |-> 0]

-----------------------------------------------------------------------------
\* The root view's state as one value, so that handlers compose.
\* out: the calls the running handler has made on speechToTextComponent.

G == [isFirstRun     |-> isFirstRun,
      longPressTimer |-> longPressTimer,
      isLongPressing |-> isLongPressing,
      timers         |-> timers,
      out            |-> <<>>]

\* bind:this={speechToTextComponent} inside {#if isFirstRun} ... {:else}
speechToTextComponent(g) == ~g.isFirstRun

Call(g, name) == [g EXCEPT !.out = Append(@, name)]

\* setTimeout: a fresh id
NewTimerId(g) ==
    CHOOSE id \in TimerIds :
        /\ id \notin DOMAIN g.timers
        /\ id # g.longPressTimer
        /\ \A j \in TimerIds :
              (j \notin DOMAIN g.timers /\ j # g.longPressTimer) => id <= j

setTimeout(g, id, ms) == [g EXCEPT !.timers = (id :> ms) @@ @]

clearTimeout(g, id) ==
    [g EXCEPT !.timers = [t \in (DOMAIN @) \ {id} |-> @[t]]]

\* function handleTouchStart(event)
handleTouchStart(g) ==
    IF g.isFirstRun THEN g
    ELSE LET id == NewTimerId(g)
         IN  [setTimeout(g, id, LongPressMs) EXCEPT !.longPressTimer = id]

\* the callback handed to setTimeout in handleTouchStart
longPressTimeout(g) ==
    LET g1 == [g EXCEPT !.isLongPressing = TRUE]
    IN  IF speechToTextComponent(g1) THEN Call(g1, "handleLongPressStart") ELSE g1

\* function handleTouchEnd(event)
handleTouchEnd(g) ==
    IF g.isFirstRun THEN g
    ELSE LET g1 == IF g.longPressTimer # NoTimer
                   THEN [clearTimeout(g, g.longPressTimer)
                            EXCEPT !.longPressTimer = NoTimer]
                   ELSE g
         IN  IF g1.isLongPressing
             THEN LET g2 == [g1 EXCEPT !.isLongPressing = FALSE]
                  IN  IF speechToTextComponent(g2)
                      THEN Call(g2, "handleLongPressEnd") ELSE g2
             ELSE g1

\* function handleTap(event)
handleTap(g) ==
    IF g.isLongPressing \/ g.isFirstRun THEN g
    ELSE LET g1 == IF g.longPressTimer # NoTimer
                   THEN [clearTimeout(g, g.longPressTimer)
                            EXCEPT !.longPressTimer = NoTimer]
                   ELSE g
         IN  IF speechToTextComponent(g1)
             THEN Call(g1, "showTextInputField") ELSE g1

\* <main on:touchstart on:touchend on:touchcancel on:mousedown on:mouseup
\*       on:mouseleave on:click>
onTouchStart(g)  == handleTouchStart(g)
onMouseDown(g)   == handleTouchStart(g)
onTouchEnd(g)    == handleTouchEnd(g)
onMouseUp(g)     == handleTouchEnd(g)
onTouchCancel(g) == handleTouchEnd(g)

onMouseLeave_ClearOnly(g) ==
    IF g.isFirstRun \/ g.longPressTimer = NoTimer THEN g
    ELSE [clearTimeout(g, g.longPressTimer) EXCEPT !.longPressTimer = NoTimer]

onMouseLeave(g)  == handleTouchEnd(g)
onClick(g)       == handleTap(g)

-----------------------------------------------------------------------------
\* Writing a handler's result back

Capped(s) == IF Len(s) <= MaxCalls THEN s ELSE SubSeq(s, 1, MaxCalls)

SetRoot(g, newInteraction) ==
    /\ isFirstRun'     = g.isFirstRun
    /\ longPressTimer' = g.longPressTimer
    /\ isLongPressing' = g.isLongPressing
    /\ timers'         = g.timers
    /\ fired'          = g.out
    /\ calls'          = IF newInteraction THEN Capped(g.out)
                         ELSE Capped(calls \o g.out)

TimerDue == \E id \in DOMAIN timers : timers[id] = 0

\* no input is dispatched while a due timer or a queued click is waiting
InputReady == ~TimerDue /\ ~clickPending

-----------------------------------------------------------------------------
\* Actions

\* touchstart / mousedown of pointer p.  Pointer 1 is the primary button or the
\* first finger; pointer 2 joins a press that is already in progress.
PressDown(d, p) ==
    /\ InputReady
    /\ p \notin DOMAIN pointers
    /\ IF pointers = EmptyFn THEN p = 1 ELSE d = device /\ 1 \in DOMAIN pointers
    /\ Cardinality(DOMAIN timers) < MaxTimers
    /\ LET fresh == pointers = EmptyFn
           g == IF d = "mouse" THEN onMouseDown(G) ELSE onTouchStart(G)
       IN  /\ SetRoot(g, fresh)
           /\ multi'    = IF fresh THEN FALSE ELSE TRUE
           /\ raced'    = IF fresh THEN isFirstRun ELSE (raced \/ isFirstRun)
           /\ released' = IF fresh THEN "none" ELSE released
    /\ device'    = d
    /\ pointers'  = (p :> 0) @@ pointers
    /\ lastEvent' = IF d = "mouse" THEN "mousedown" ELSE "touchstart"
    /\ UNCHANGED <<firstRunCheck, clickPending>>
    /\ UNCHANGED nonGestureVars

\* touchend / mouseup of pointer p.  A mouse click follows the release of the
\* primary button however long it was held; a touch click follows only a short
\* single-finger tap.
PressUp(p) ==
    /\ InputReady
    /\ p \in DOMAIN pointers
    /\ SetRoot(IF device = "mouse" THEN onMouseUp(G) ELSE onTouchEnd(G), FALSE)
    /\ pointers'  = [q \in (DOMAIN pointers) \ {p} |-> pointers[q]]
    /\ clickPending' =
          IF device = "mouse" THEN p = 1
          ELSE p = 1 /\ ~multi /\ pointers[p] < LongPressMs
    /\ released'  = IF released = "cancel" THEN "cancel"
                    ELSE IF pointers[p] >= LongPressMs \/ released = "long" THEN "long"
                    ELSE "short"
    /\ lastEvent' = IF device = "mouse" THEN "mouseup" ELSE "touchend"
    /\ raced'     = (raced \/ isFirstRun)
    /\ UNCHANGED <<firstRunCheck, device, multi>>
    /\ UNCHANGED nonGestureVars

\* touchcancel (a touch in progress is taken away) / mouseleave (the mouse leaves
\* the surface, with or without a button held).  No click follows.
PressCancel ==
    /\ InputReady
    /\ device = "touch" => pointers # EmptyFn
    /\ SetRoot(IF device = "mouse" THEN onMouseLeave(G) ELSE onTouchCancel(G), FALSE)
    /\ pointers'  = EmptyFn
    /\ released'  = IF pointers # EmptyFn THEN "cancel" ELSE released
    /\ lastEvent' = IF device = "mouse" THEN "mouseleave" ELSE "touchcancel"
    /\ raced'     = (raced \/ isFirstRun)
    /\ UNCHANGED <<firstRunCheck, device, multi, clickPending>>
    /\ UNCHANGED nonGestureVars

\* the click that follows a release.  After a touch tap the browser first sends
\* the compatibility mousedown and mouseup, back to back, and then the click.
Click ==
    /\ clickPending
    /\ SetRoot(IF device = "mouse" THEN onClick(G)
               ELSE onClick(onMouseUp(onMouseDown(G))), FALSE)
    /\ clickPending' = FALSE
    /\ lastEvent' = "click"
    /\ raced'     = (raced \/ isFirstRun)
    /\ UNCHANGED <<firstRunCheck, device, pointers, multi, released>>
    /\ UNCHANGED nonGestureVars

\* a due timer runs its callback
TimerFire(id) ==
    /\ ~clickPending
    /\ id \in DOMAIN timers
    /\ timers[id] = 0
    /\ SetRoot(longPressTimeout([G EXCEPT !.timers =
                                    [t \in (DOMAIN @) \ {id} |-> @[t]]]), FALSE)
    /\ lastEvent' = "timeout"
    /\ raced'     = (raced \/ isFirstRun)
    /\ UNCHANGED <<firstRunCheck, device, pointers, multi, released, clickPending>>
    /\ UNCHANGED nonGestureVars

\* TickMs pass
Tick ==
    /\ InputReady
    /\ timers'   = [t \in DOMAIN timers |-> timers[t] - TickMs]
    /\ pointers' = [q \in DOMAIN pointers |->
                       IF pointers[q] < LongPressMs THEN pointers[q] + TickMs
                       ELSE pointers[q]]
    /\ fired'     = <<>>
    /\ lastEvent' = "none"
    /\ UNCHANGED <<isFirstRun, firstRunCheck, longPressTimer, isLongPressing, calls,
                   device, clickPending, multi, raced, released>>
    /\ UNCHANGED nonGestureVars

\* invoke("is_first_run").then(result => { isFirstRun = result })
IsFirstRunResolved(result) ==
    /\ ~clickPending
    /\ firstRunCheck = "pending"
    /\ firstRunCheck' = "settled"
    /\ isFirstRun' = result
    /\ raced'      = (raced \/ result)
    /\ fired'      = <<>>
    /\ lastEvent'  = "is_first_run"
    /\ UNCHANGED <<longPressTimer, isLongPressing, timers, calls, device, pointers,
                   clickPending, multi, released>>
    /\ UNCHANGED nonGestureVars

\* function handleTutorialComplete()
handleTutorialComplete ==
    /\ ~clickPending
    /\ isFirstRun
    /\ isFirstRun' = FALSE
    /\ fired'      = <<>>
    /\ lastEvent'  = "tutorialComplete"
    /\ UNCHANGED <<firstRunCheck, longPressTimer, isLongPressing, timers, calls,
                   device, pointers, clickPending, multi, raced, released>>
    /\ UNCHANGED nonGestureVars

GestureStart ==
    /\ isFirstRun     = FALSE
    /\ firstRunCheck  = "pending"
    /\ longPressTimer = NoTimer
    /\ isLongPressing = FALSE
    /\ timers         = EmptyFn
    /\ fired          = <<>>
    /\ calls          = <<>>
    /\ device         = "mouse"
    /\ pointers       = EmptyFn
    /\ clickPending   = FALSE
    /\ lastEvent      = "none"
    /\ multi          = FALSE
    /\ raced          = FALSE
    /\ released       = "none"

\* no subscription is being followed
ProviderIdle ==
    /\ provider    = "time"
    /\ subscribed  = FALSE
    /\ intervalOn  = FALSE
    /\ cancelCount = 0
    /\ tickCount   = 0
    /\ inflight    = {}
    /\ nextFetch   = 1
    /\ shown       = 0
    /\ deliveries  = <<>>
    /\ unhandled   = FALSE
    /\ settled     = <<>>
    /\ provStep    = "none"

\* the tutorial as mounted: first step, nothing touched, nothing invoked
NoTouch  == [x |-> -1, y |-> -1]
NoEvent  == [type |-> "none", x |-> -1, y |-> -1, x0 |-> -1, y0 |-> -1]
NoAnswer == [cmd |-> "none", ok |-> TRUE]

TutorialStart ==
    /\ currentStep     = 0
    /\ touchStartY     = 0
    /\ tutPending      = {}
    /\ tutCalls        = 0
    /\ tutEmitted      = 0
    /\ tutUnhandled    = FALSE
    /\ tutMounted      = TRUE
    /\ tutEvent        = NoEvent
    /\ tutQueue        = <<>>
    /\ touchDown       = NoTouch
    /\ tutClickPending = FALSE
    /\ gestures        = 0
    /\ tutDid          = <<>>
    /\ tutAnswered     = NoAnswer
    /\ stepBefore      = 0
    /\ stepAtEvent     = 0
    /\ launcherAtEvent = 0
    /\ advanceCalls    = 0
    /\ retreatCalls    = 0
    /\ completeCalls   = 0
    /\ launcherCalls   = 0

\* the intervals onMount sets up: setupTimeInterval, setupWeatherInterval,
\* setupBatteryInfoInterval
RootIntervals == {"time", "weather", "battery"}

\* the root view once onMount has run
RootMounted ==
    /\ mounted      = TRUE
    /\ intervals    = RootIntervals
    /\ intervalRuns = 0

\* the speech component as declared, before its onMount has run
SpeechIdle ==
    /\ isModelLoaded     = FALSE
    /\ isRecording       = FALSE
    /\ transcription     = <<>>
    /\ errorMessage      = ""
    /\ isProcessing      = FALSE
    /\ showTranscription = FALSE
    /\ showTextInput     = FALSE
    /\ inputText         = <<>>
    /\ isVisible         = FALSE
    /\ predictions       = <<>>
    /\ isLoading         = FALSE
    /\ selectedIndex     = -1
    /\ predictionTimeoutHandler = FALSE
    /\ suggestPending    = {}
    /\ suggestCalls      = 0
    /\ sttPending        = {}
    /\ sttCalls          = 0
    /\ sttEmitted        = <<>>
    /\ textEmitted       = <<>>
    /\ sttOps            = 0
    /\ sttStep           = "none"
    /\ sttDid            = <<>>
    /\ sttSilent         = {}
    /\ sttAnswered       = NoAnswer
    /\ sttLongPress      = "none"

\* the latest show() started no search
NoSearch == [id |-> 0, done |-> FALSE, ok |-> TRUE, list |-> <<>>]

\* the results page as declared: hidden, nothing searched
ResultsStart ==
    /\ resultsQuery    = <<>>
    /\ resultsVisible  = FALSE
    /\ results         = <<>>
    /\ resultsLoading  = FALSE
    /\ resultsError    = ""
    /\ resultsPending  = {}
    /\ resultsCalls    = 0
    /\ resultsClosed   = 0
    /\ resultsOps      = 0
    /\ resultsStep     = "none"
    /\ resultsAnswered = [cmd |-> "none", ok |-> TRUE, list |-> <<>>]
    /\ resultsLatest   = NoSearch

GestureInit ==
    /\ GestureStart /\ ProviderIdle /\ TutorialStart /\ RootMounted /\ SpeechIdle
    /\ ResultsStart

GestureNext ==
    \/ \E d \in Devices, p \in Pointers : PressDown(d, p)
    \/ \E p \in Pointers : PressUp(p)
    \/ PressCancel
    \/ Click
    \/ \E id \in TimerIds : TimerFire(id)
    \/ Tick
    \/ \E result \in BOOLEAN : IsFirstRunResolved(result)
    \/ handleTutorialComplete

SpecGesture == GestureInit /\ [][GestureNext]_vars

-----------------------------------------------------------------------------
\* Properties of the gesture logic

Has(name) == \E i \in 1..Len(calls) : calls[i] = name

\* the gesture handlers ran for the whole of the current interaction
GestureLive == ~isFirstRun /\ ~raced

\* every pointer of the interaction has left and the click, if any, was handled
InteractionDone ==
    /\ GestureLive
    /\ released # "none"
    /\ pointers = EmptyFn
    /\ ~clickPending

TapOutcome == Has("showTextInputField")

LongPressOutcome ==
    \E i, j \in 1..Len(calls) :
        /\ i < j
        /\ calls[i] = "handleLongPressStart"
        /\ calls[j] = "handleLongPressEnd"

\* the phase of the gesture state machine, read off the pointer and the flag
Phase ==
    IF isLongPressing THEN "LongPressing"
    ELSE IF pointers # EmptyFn THEN "PressPending"
    ELSE "Idle"

\* C1: once an interaction is over (press-down, then press-up or press-cancel,
\* and the click if one follows), either showTextInputField was called and no
\* long-press callback was, or handleLongPressStart and then handleLongPressEnd
\* were called and showTextInputField was not: never both, never neither.
C1_ExactlyOneOutcome ==
    InteractionDone =>
        \/ TapOutcome /\ ~Has("handleLongPressStart") /\ ~Has("handleLongPressEnd")
        \/ LongPressOutcome /\ ~TapOutcome

\* C2: once an interaction is over in which every press-down was followed by its
\* press-up less than LongPressMs later, showTextInputField has been called
\* exactly once, no long-press callback has been called, and no long-press timer
\* is left pending.
C2_ShortPressIsTap ==
    (InteractionDone /\ released = "short") =>
        /\ calls = <<"showTextInputField">>
        /\ DOMAIN timers = {}
        /\ longPressTimer = NoTimer
        /\ ~isLongPressing

\* C3: once a single-pointer interaction is over whose press-up came LongPressMs
\* or more after the press-down, handleLongPressStart and then handleLongPressEnd
\* have been called and showTextInputField has not, the click that follows the
\* release included.
C3_LongPressIsNotTap ==
    (InteractionDone /\ released = "long" /\ ~multi) =>
        calls = <<"handleLongPressStart", "handleLongPressEnd">>

\* C4: while the gesture logic is live, longPressTimer is non-null exactly when
\* the phase is PressPending, and at most one long-press timer is pending.
C4_TimerIffPressPending ==
    GestureLive =>
        /\ (longPressTimer # NoTimer) <=> (Phase = "PressPending")
        /\ Cardinality(DOMAIN timers) <= 1

\* C5: a press-down dispatched while a press is already in progress (phase
\* PressPending or LongPressing) starts no timer, keeps the timer handle and calls
\* nothing.
C5_ReentrantPressDownIsNoOp ==
    [][(/\ lastEvent' \in {"mousedown", "touchstart"}
        /\ GestureLive
        /\ pointers # EmptyFn)
       => (/\ timers' = timers
           /\ longPressTimer' = longPressTimer
           /\ isLongPressing' = isLongPressing
           /\ fired' = <<>>)]_vars

\* what a release does to the gesture state
EndEffect ==
    IF isFirstRun
    THEN /\ longPressTimer' = longPressTimer
         /\ timers' = timers
         /\ isLongPressing' = isLongPressing
         /\ fired' = <<>>
    ELSE /\ longPressTimer' = NoTimer
         /\ timers' = [t \in (DOMAIN timers) \ {longPressTimer} |-> timers[t]]
         /\ isLongPressing' = FALSE
         /\ fired' = IF isLongPressing THEN <<"handleLongPressEnd">> ELSE <<>>

\* C6: from every state a press-cancel (touchcancel, mouseleave) does to the
\* gesture state exactly what a press-up (touchend, mouseup) does: the timer the
\* handle names is cancelled and the handle cleared, and if long-pressing,
\* isLongPressing becomes false and handleLongPressEnd is called (while the
\* tutorial is shown both do nothing).
C6_CancelSameAsPressUp ==
    [][(lastEvent' \in {"touchend", "mouseup", "touchcancel", "mouseleave"})
       => EndEffect]_vars

\* a press-cancel has ended a long press
C6_Witness ==
    /\ lastEvent \in {"touchcancel", "mouseleave"}
    /\ fired = <<"handleLongPressEnd">>
    /\ ~isLongPressing
    /\ longPressTimer = NoTimer

-----------------------------------------------------------------------------
\* Provider subscriptions: setupTimeInterval, setupBatteryInfoInterval,
\* setupBatteryInterval, setupWeatherInterval

MaxTicks   == 2     \* periods followed
MaxCancels == 2     \* calls of the unsubscribe function followed

Providers      == {"time", "batteryInfo", "batteryLevel", "weather"}
AsyncProviders == Providers \ {"time"}

FallbackLevel == 100               \* level: ... || 100, { level: 100, ... }
FallbackState == "unknown"         \* state: ... || 'unknown'

\* const defaultWeather (temperature "--(degree sign)F", icon sun behind cloud)
defaultWeather == [temperature |-> "--F", icon |-> "sun-behind-cloud"]

Fulfilled(v) == [status |-> "fulfilled", value |-> v]
Rejected     == [status |-> "rejected", value |-> "error"]

\* what batteries() can answer: a rejection, no battery, or one battery
Charges       == {0, 42, 100}
BatteryStates == {"", "charging"}
BatteryOutcomes ==
    {[status |-> "rejected", list |-> <<>>], [status |-> "fulfilled", list |-> <<>>]}
    \cup {[status |-> "fulfilled", list |-> <<[state_of_charge |-> c, state |-> st]>>] :
            c \in Charges, st \in BatteryStates}

\* what getCurrentPosition() and invoke("get_weather") can answer
WeatherSamples == {[temperature |-> "72F", icon |-> "sun"],
                   [temperature |-> "40F", icon |-> "rain"]}
WeatherOutcomes ==
    {[position |-> "rejected", get_weather |-> "skipped", data |-> defaultWeather],
     [position |-> "fulfilled", get_weather |-> "rejected", data |-> defaultWeather]}
    \cup {[position |-> "fulfilled", get_weather |-> "fulfilled", data |-> w] :
            w \in WeatherSamples}

getBatteryInfo_NoCatch(o) ==
    IF o.status = "rejected" THEN Rejected
    ELSE Fulfilled([level |-> IF Len(o.list) = 0 \/ o.list[1].state_of_charge = 0
                              THEN FallbackLevel ELSE o.list[1].state_of_charge,
                    state |-> IF Len(o.list) = 0 \/ o.list[1].state = ""
                              THEN FallbackState ELSE o.list[1].state])

\* export async function getBatteryInfo(): x || y yields y when x is undefined,
\* 0 or the empty string
getBatteryInfo(o) ==
    IF o.status = "rejected"
    THEN Fulfilled([level |-> FallbackLevel, state |-> FallbackState])
    ELSE Fulfilled([level |-> IF Len(o.list) = 0 \/ o.list[1].state_of_charge = 0
                              THEN FallbackLevel ELSE o.list[1].state_of_charge,
                    state |-> IF Len(o.list) = 0 \/ o.list[1].state = ""
                              THEN FallbackState ELSE o.list[1].state])

\* export async function getBatteryLevel()
getBatteryLevel(o) ==
    LET batteryInfo == getBatteryInfo(o)
    IN  IF batteryInfo.status = "rejected" THEN Rejected
        ELSE Fulfilled(batteryInfo.value.level)

\* export async function getCurrentWeather()
getCurrentWeather(o) ==
    IF o.position = "rejected" \/ o.get_weather = "rejected"
    THEN Fulfilled(defaultWeather)
    ELSE Fulfilled(o.data)

\* export function getCurrentTime(): the clock, read in periods
getCurrentTime(clock) == clock

Outcomes(prov) ==
    CASE prov \in {"batteryInfo", "batteryLevel"} -> BatteryOutcomes
      [] prov = "weather" -> WeatherOutcomes
      [] OTHER -> {}

fetchOnce(prov, o) ==
    CASE prov = "batteryInfo"  -> getBatteryInfo(o)
      [] prov = "batteryLevel" -> getBatteryLevel(o)
      [] prov = "weather"      -> getCurrentWeather(o)

BridgeFailed(prov, o) ==
    IF prov = "weather" THEN o.position = "rejected" \/ o.get_weather = "rejected"
    ELSE o.status = "rejected"

Fallback(prov) ==
    CASE prov = "batteryInfo"  -> [level |-> FallbackLevel, state |-> FallbackState]
      [] prov = "batteryLevel" -> FallbackLevel
      [] prov = "weather"      -> defaultWeather

\* the value the root view holds before the first delivery
InitialShown(prov) ==
    IF prov = "time" THEN getCurrentTime(0) ELSE Fallback(prov)

-----------------------------------------------------------------------------
\* The subscription's state as one value

P == [intervalOn |-> intervalOn,
      inflight   |-> inflight,
      nextFetch  |-> nextFetch,
      shown      |-> shown,
      deliveries |-> deliveries,
      unhandled  |-> unhandled]

SetP(p) ==
    /\ intervalOn' = p.intervalOn
    /\ inflight'   = p.inflight
    /\ nextFetch'  = p.nextFetch
    /\ shown'      = p.shown
    /\ deliveries' = p.deliveries
    /\ unhandled'  = p.unhandled

\* a call of getBatteryInfo() / getBatteryLevel() / getCurrentWeather()
startFetch(p, origin) ==
    [p EXCEPT !.inflight  = @ \cup {[id |-> p.nextFetch, origin |-> origin]},
              !.nextFetch = @ + 1]

\* the subscriber's callback: the view stores the value
callback(p, f, value) ==
    [p EXCEPT !.shown      = value,
              !.deliveries = Append(@, [id |-> f.id, origin |-> f.origin,
                                        value |-> value])]

\* getX().then(callback), and: const v = await getX(); callback(v)
thenCallback(p, f, result) ==
    IF result.status = "fulfilled" THEN callback(p, f, result.value)
    ELSE [p EXCEPT !.unhandled = TRUE]

setInterval(p) == [p EXCEPT !.intervalOn = TRUE]

clearInterval(p) == [p EXCEPT !.intervalOn = FALSE]

\* export function setupTimeInterval
setupTimeInterval(p) == setInterval(p)

setupBatteryInfoInterval_NoInitial(p) == setInterval(p)

\* export function setupBatteryInfoInterval
setupBatteryInfoInterval(p) == setInterval(startFetch(p, "initial"))

\* export function setupBatteryInterval
setupBatteryInterval(p) == setInterval(startFetch(p, "initial"))

\* export function setupWeatherInterval
setupWeatherInterval(p) == setInterval(startFetch(p, "initial"))

\* the function handed to setInterval in setupTimeInterval
timeInterval(p, clock) ==
    callback([p EXCEPT !.nextFetch = @ + 1],
             [id |-> p.nextFetch, origin |-> "tick"], getCurrentTime(clock))

batteryInterval_SkipWhileBusy(p) ==
    IF p.inflight # {} THEN p ELSE startFetch(p, "tick")

\* the function handed to setInterval in setupBatteryInfoInterval and
\* setupBatteryInterval, up to its await
batteryInterval(p) == startFetch(p, "tick")

\* the function handed to setInterval in setupWeatherInterval, up to its await
weatherInterval(p) == startFetch(p, "tick")

-----------------------------------------------------------------------------
\* Actions of a subscription

\* onMount: const clear... = setup...Interval(callback)
Subscribe ==
    /\ ~subscribed
    /\ subscribed' = TRUE
    /\ SetP(CASE provider = "time"         -> setupTimeInterval(P)
              [] provider = "batteryInfo"  -> setupBatteryInfoInterval(P)
              [] provider = "batteryLevel" -> setupBatteryInterval(P)
              [] provider = "weather"      -> setupWeatherInterval(P))
    /\ provStep' = "subscribe"
    /\ UNCHANGED <<provider, cancelCount, tickCount, settled>>
    /\ UNCHANGED nonProviderVars

\* a period elapses while the interval is live
IntervalTick ==
    /\ intervalOn
    /\ tickCount < MaxTicks
    /\ tickCount' = tickCount + 1
    /\ SetP(CASE provider = "time"    -> timeInterval(P, tickCount + 1)
              [] provider = "weather" -> weatherInterval(P)
              [] OTHER                -> batteryInterval(P))
    /\ provStep' = "tick"
    /\ UNCHANGED <<provider, subscribed, cancelCount, settled>>
    /\ UNCHANGED nonProviderVars

\* the bridge answers fetch f with outcome o and the fetch's continuation runs
FetchSettles(f, o) ==
    /\ f \in inflight
    /\ o \in Outcomes(provider)
    /\ SetP(thenCallback([P EXCEPT !.inflight = @ \ {f}], f, fetchOnce(provider, o)))
    /\ settled' = Append(settled, [id |-> f.id, failed |-> BridgeFailed(provider, o),
                                    answer |-> o])
    /\ provStep' = "settle"
    /\ UNCHANGED <<provider, subscribed, cancelCount, tickCount>>
    /\ UNCHANGED nonProviderVars

\* the function setup...Interval returned is called
Unsubscribe ==
    /\ subscribed
    /\ cancelCount < MaxCancels
    /\ cancelCount' = cancelCount + 1
    /\ SetP(clearInterval(P))
    /\ provStep' = "unsubscribe"
    /\ UNCHANGED <<provider, subscribed, tickCount, settled>>
    /\ UNCHANGED nonProviderVars

ProviderStart ==
    /\ provider    \in Providers
    /\ subscribed  = FALSE
    /\ intervalOn  = FALSE
    /\ cancelCount = 0
    /\ tickCount   = 0
    /\ inflight    = {}
    /\ nextFetch   = 1
    /\ shown       = InitialShown(provider)
    /\ deliveries  = <<>>
    /\ unhandled   = FALSE
    /\ settled     = <<>>
    /\ provStep    = "none"

ProviderInit ==
    /\ ProviderStart /\ GestureStart /\ TutorialStart /\ RootMounted /\ SpeechIdle
    /\ ResultsStart

ProviderNext ==
    \/ Subscribe
    \/ IntervalTick
    \/ \E f \in inflight, o \in Outcomes(provider) : FetchSettles(f, o)
    \/ Unsubscribe

SpecProvider == ProviderInit /\ [][ProviderNext]_vars

-----------------------------------------------------------------------------
\* Properties of a subscription

Started(origin) ==
    Cardinality({f \in inflight : f.origin = origin})
    + Cardinality({i \in 1..Len(deliveries) : deliveries[i].origin = origin})

\* C7: once the unsubscribe function has been called (once or more), the
\* subscriber's callback is not invoked again, whatever fetch was in flight.
C7_NoDeliveryAfterCancel ==
    [][cancelCount > 0 => deliveries' = deliveries]_vars

\* C8 (as claimed): every subscription, the time subscription included, makes one
\* delivery on subscription without waiting for a period (its fetch is under way
\* or delivered), and one more per period.
C8_EverySubscriptionDeliversAtOnce ==
    subscribed => (Started("initial") = 1 /\ Started("tick") = tickCount)

\* C8 (amended): the battery and weather subscriptions start one fetch on
\* subscription, before any period has elapsed; the time subscription starts
\* none, so its first delivery is that of the first period; every subscription
\* then makes one delivery (or starts one fetch) per period, and no period is
\* served once unsubscribe has been called.
C8_InitialFetchThenOnePerPeriod ==
    /\ [](subscribed =>
            /\ Started("initial") = (IF provider = "time" THEN 0 ELSE 1)
            /\ Started("tick") = tickCount)
    /\ [](~subscribed => Started("initial") = 0 /\ Started("tick") = 0)
    /\ [][tickCount' # tickCount => (subscribed /\ cancelCount = 0)]_vars

\* a battery or weather subscription has delivered before the first period
C8_Witness ==
    /\ provider \in AsyncProviders
    /\ tickCount = 0
    /\ Len(deliveries) = 1
    /\ deliveries[1].origin = "initial"
    /\ shown = deliveries[1].value

\* C9: a period always starts a new fetch, also while earlier fetches are
\* outstanding; the callback runs once per answered fetch, in the order of the
\* answers; the value shown is the one delivered last.
C9_NoSkipLastWriteWins ==
    /\ [](provider \in AsyncProviders =>
            /\ Len(deliveries) = Len(settled)
            /\ \A i \in 1..Len(settled) : deliveries[i].id = settled[i].id)
    /\ [](deliveries # <<>> => shown = deliveries[Len(deliveries)].value)
    /\ [][provStep' = "tick" =>
            IF provider \in AsyncProviders
            THEN /\ inflight' = inflight \cup {[id |-> nextFetch, origin |-> "tick"]}
                 /\ nextFetch \notin {f.id : f \in inflight}
                 /\ deliveries' = deliveries
            ELSE Len(deliveries') = Len(deliveries) + 1]_vars

\* a period started a fetch while an older one was outstanding, the newer one was
\* answered first, and the value shown is the older fetch's
C9_Witness ==
    /\ Len(deliveries) >= 2
    /\ \E i \in 1..(Len(deliveries) - 1) :
          /\ deliveries[i].id > deliveries[Len(deliveries)].id
          /\ deliveries[i].value # deliveries[Len(deliveries)].value
    /\ shown = deliveries[Len(deliveries)].value

\* C10: getBatteryInfo and getCurrentWeather never reject: every answered fetch
\* reaches the callback, no rejection is left unhandled, and a fetch whose bridge
\* call failed delivers the fallback value.
C10_FailureYieldsFallback ==
    /\ ~unhandled
    /\ provider \in AsyncProviders =>
          /\ Len(deliveries) = Len(settled)
          /\ \A i \in 1..Len(settled) :
                settled[i].failed =>
                    /\ deliveries[i].id = settled[i].id
                    /\ deliveries[i].value = Fallback(provider)

\* after a good answer, a failed bridge call has put the fallback on show
C10_Witness ==
    /\ provider \in {"batteryInfo", "weather"}
    /\ Len(settled) >= 2
    /\ ~settled[1].failed
    /\ deliveries[1].value # Fallback(provider)
    /\ settled[Len(settled)].failed
    /\ shown = Fallback(provider)

\* C11: whenever batteries() answers with a non-empty list, the value getBatteryInfo
\* delivers has level equal to the first battery's state_of_charge and state equal
\* to its state; the fallback 100 / 'unknown' stands in only for a failed fetch
\* or an empty list.
C11_BatteryInfoIsFirstBattery ==
    provider = "batteryInfo" =>
        \A i \in 1..Len(settled) :
            LET o == settled[i].answer
            IN  (o.status = "fulfilled" /\ Len(o.list) > 0) =>
                    deliveries[i].value = [level |-> o.list[1].state_of_charge,
                                           state |-> o.list[1].state]

(***************************************************************************)
(* The first-run tutorial (part_001).                                      *)
(*                                                                         *)
(* The user's gestures reach the component as DOM events.  A touch event   *)
(* raised inside the tutorial's container runs the container's listener    *)
(* and then, bubbling, the listener onMount registered on document; a      *)
(* click runs the container's on:click.  Each listener run is one step.    *)
(* A touch that ends where it began is followed by a click.                *)
(***************************************************************************)

\* const tutorialSteps: only the action of a step bears on the step machine
tutorialSteps ==
    << [action |-> "null"],
       [action |-> "setLauncher"],
       [action |-> "null"],
       [action |-> "requestPermissions"] >>

\* tutorialSteps.length
N == Len(tutorialSteps)

\* the displacement a swipe has to exceed
SwipeThreshold == 50

\* user gestures per run
MaxGestures == 5

\* where a touch starts, and how far from there it ends (start minus end:
\* positive is upward on screen); sideways it moves not at all or a long way
TouchAt       == [x |-> 100, y |-> 300]
Displacements == { -(SwipeThreshold + 1), -SwipeThreshold, -(SwipeThreshold - 1), 0,
                   SwipeThreshold - 1, SwipeThreshold, SwipeThreshold + 1 }
Sideways      == {0, 80}

\* the listeners of a touch event in dispatch order, and of a click
TouchListeners == <<"container", "document">>
ClickListeners == <<"container">>

\* the tutorial component's state as its handlers see it
T == [ currentStep |-> currentStep, touchStartY |-> touchStartY,
       pending |-> tutPending, calls |-> tutCalls, emitted |-> tutEmitted,
       unhandled |-> tutUnhandled, mounted |-> tutMounted, did |-> <<>> ]

Did(t, what) == [t EXCEPT !.did = Append(@, what)]

\* invoke(cmd): the call goes out, the caller's continuation waits for the answer
invoke(t, cmd) ==
    [Did(t, cmd) EXCEPT !.pending = @ \cup {[id |-> t.calls + 1, cmd |-> cmd]},
                        !.calls = @ + 1]

\* dispatch('tutorialComplete'): the parent's handleTutorialComplete clears
\* isFirstRun, and the {#if isFirstRun} block takes the tutorial down
dispatch(t, type) ==
    [Did(t, type) EXCEPT !.emitted = @ + 1, !.mounted = FALSE]

\* completeTutorial up to its await
completeTutorial(t) == invoke(t, "complete_tutorial")

completeTutorialResumes_AlwaysDispatch(t, ok) ==
    dispatch(t, "tutorialComplete")

\* completeTutorial after its await: dispatch on success, console.error in the catch
completeTutorialResumes(t, ok) ==
    IF ok THEN dispatch(t, "tutorialComplete") ELSE Did(t, "console.error")

nextStep_CompletesOnce(t) ==
    LET t1 == Did(t, "nextStep")
    IN  IF t1.currentStep < N - 1
        THEN [t1 EXCEPT !.currentStep = @ + 1]
        ELSE IF completeCalls > 0 THEN t1 ELSE completeTutorial(t1)

nextStep_CompletesOnArrival(t) ==
    LET t1 == Did(t, "nextStep")
        t2 == [t1 EXCEPT !.currentStep = IF @ < N - 1 THEN @ + 1 ELSE @]
    IN  IF t2.currentStep = N - 1 THEN completeTutorial(t2) ELSE t2

nextStep_NoLastStep(t) ==
    LET t1 == Did(t, "nextStep")
    IN  [t1 EXCEPT !.currentStep = @ + 1]

nextStep(t) ==
    LET t1 == Did(t, "nextStep")
    IN  IF t1.currentStep < N - 1
        THEN [t1 EXCEPT !.currentStep = @ + 1]
        ELSE completeTutorial(t1)

prevStep_NoFloor(t) ==
    LET t1 == Did(t, "prevStep")
    IN  [t1 EXCEPT !.currentStep = @ - 1]

prevStep(t) ==
    LET t1 == Did(t, "prevStep")
    IN  IF t1.currentStep > 0
        THEN [t1 EXCEPT !.currentStep = @ - 1]
        ELSE t1

\* handleAction up to its await
handleAction(t) ==
    LET action == tutorialSteps[t.currentStep + 1].action
    IN  IF action = "setLauncher" THEN invoke(t, "set_as_launcher")
        ELSE IF action = "requestPermissions" THEN Did(t, "console.log")
        ELSE t

\* handleAction after its await: it has no try/catch and handleClick neither
\* awaits it nor attaches a handler, so a rejection is nobody's
handleActionResumes(t, ok) ==
    IF ok THEN t ELSE [t EXCEPT !.unhandled = TRUE]

handleClick(t) ==
    nextStep(IF tutorialSteps[t.currentStep + 1].action # "null"
             THEN handleAction(t)
             ELSE t)

\* the tutorial's handleTouchStart(event)
tutorialHandleTouchStart(t, event) ==
    [t EXCEPT !.touchStartY = event.y]

\* the tutorial's handleTouchEnd(event)
tutorialHandleTouchEnd(t, event) ==
    LET touchEndY == event.y
        diff      == t.touchStartY - touchEndY
    IN  IF diff > SwipeThreshold THEN nextStep(t)
        ELSE IF diff < -SwipeThreshold THEN prevStep(t)
        ELSE t

Count(seq, what) == Cardinality({i \in 1..Len(seq) : seq[i] = what})

\* write a handler's result back, and keep the books
SetT(t) ==
    /\ currentStep'   = t.currentStep
    /\ touchStartY'   = t.touchStartY
    /\ tutPending'    = t.pending
    /\ tutCalls'      = t.calls
    /\ tutEmitted'    = t.emitted
    /\ tutUnhandled'  = t.unhandled
    /\ tutMounted'    = t.mounted
    /\ tutDid'        = t.did
    /\ stepBefore'    = currentStep
    /\ advanceCalls'  = advanceCalls  + Count(t.did, "nextStep")
    /\ retreatCalls'  = retreatCalls  + Count(t.did, "prevStep")
    /\ completeCalls' = completeCalls + Count(t.did, "complete_tutorial")
    /\ launcherCalls' = launcherCalls + Count(t.did, "set_as_launcher")

\* the browser raises an event: its listeners are queued
Raise(event, listeners) ==
    /\ tutEvent'        = event
    /\ tutQueue'        = listeners
    /\ stepAtEvent'     = currentStep
    /\ launcherAtEvent' = launcherCalls
    /\ UNCHANGED <<currentStep, touchStartY, tutPending, tutCalls, tutEmitted,
                   tutUnhandled, tutMounted, tutDid, tutAnswered, stepBefore,
                   advanceCalls, retreatCalls, completeCalls, launcherCalls>>

TutorialQuiet == tutMounted /\ tutQueue = <<>>

\* a finger comes down on the tutorial
TutorialTouchStart ==
    /\ TutorialQuiet
    /\ touchDown = NoTouch
    /\ ~tutClickPending
    /\ gestures < MaxGestures
    /\ Raise([type |-> "touchstart", x |-> TouchAt.x, y |-> TouchAt.y,
              x0 |-> TouchAt.x, y0 |-> TouchAt.y], TouchListeners)
    /\ touchDown' = TouchAt
    /\ gestures' = gestures + 1
    /\ UNCHANGED <<tutClickPending>>
    /\ UNCHANGED nonTutorialVars

\* the finger lifts, d above and dx beside where it came down
TutorialTouchEnd(d, dx) ==
    /\ TutorialQuiet
    /\ touchDown # NoTouch
    /\ Raise([type |-> "touchend", x |-> touchDown.x + dx, y |-> touchDown.y - d,
              x0 |-> touchDown.x, y0 |-> touchDown.y], TouchListeners)
    /\ touchDown' = NoTouch
    /\ tutClickPending' = (d = 0 /\ dx = 0)
    /\ UNCHANGED <<gestures>>
    /\ UNCHANGED nonTutorialVars

\* a mouse click, or the click that follows a touch which did not move
TutorialClick ==
    /\ TutorialQuiet
    /\ touchDown = NoTouch
    /\ tutClickPending \/ gestures < MaxGestures
    /\ Raise([type |-> "click", x |-> TouchAt.x, y |-> TouchAt.y,
              x0 |-> TouchAt.x, y0 |-> TouchAt.y], ClickListeners)
    /\ tutClickPending' = FALSE
    /\ gestures' = IF tutClickPending THEN gestures ELSE gestures + 1
    /\ UNCHANGED <<touchDown>>
    /\ UNCHANGED nonTutorialVars

\* the next listener of the event being dispatched runs
TutorialListener ==
    /\ tutQueue # <<>>
    /\ SetT(CASE tutEvent.type = "touchstart" -> tutorialHandleTouchStart(T, tutEvent)
              [] tutEvent.type = "touchend"   -> tutorialHandleTouchEnd(T, tutEvent)
              [] tutEvent.type = "click"      -> handleClick(T))
    /\ tutQueue' = Tail(tutQueue)
    /\ UNCHANGED <<tutEvent, touchDown, tutClickPending, gestures, tutAnswered,
                   stepAtEvent, launcherAtEvent>>
    /\ UNCHANGED nonTutorialVars

\* the bridge answers one of the tutorial's calls; the function that awaits it goes on
TutorialBridgeAnswers(c, ok) ==
    /\ c \in tutPending
    /\ tutQueue = <<>>
    /\ LET t == [T EXCEPT !.pending = @ \ {c}]
       IN  SetT(IF c.cmd = "set_as_launcher"
                THEN handleActionResumes(t, ok)
                ELSE completeTutorialResumes(t, ok))
    /\ tutAnswered' = [cmd |-> c.cmd, ok |-> ok]
    /\ UNCHANGED <<tutEvent, tutQueue, touchDown, tutClickPending, gestures,
                   stepAtEvent, launcherAtEvent>>
    /\ UNCHANGED nonTutorialVars

TutorialInit ==
    /\ TutorialStart /\ GestureStart /\ ProviderIdle /\ RootMounted /\ SpeechIdle
    /\ ResultsStart

TutorialNext ==
    \/ TutorialTouchStart
    \/ \E d \in Displacements, dx \in Sideways : TutorialTouchEnd(d, dx)
    \/ TutorialClick
    \/ TutorialListener
    \/ \E c \in tutPending, ok \in BOOLEAN : TutorialBridgeAnswers(c, ok)

SpecTutorial == TutorialInit /\ [][TutorialNext]_vars

(***************************************************************************)
(* Claims about the tutorial's step machine                                *)
(***************************************************************************)

\* the step now being taken is a listener's run in which nextStep / prevStep is called
Advancing  == tutQueue # <<>> /\ Count(tutDid', "nextStep") > 0
Retreating == tutQueue # <<>> /\ Count(tutDid', "prevStep") > 0

\* the action a step declares was invoked by what a listener did
ActionInvoked(action, did) ==
    CASE action = "setLauncher"        -> Count(did, "set_as_launcher") = 1
      [] action = "requestPermissions" -> Count(did, "console.log") = 1
      [] OTHER                         -> TRUE

\* C12: every advance from a step before the last, whether a tap or an upward swipe
\* triggered it, increments the step index by exactly one and invokes the action
\* declared by the step being left.
C12_AdvanceStepsOnceAndInvokesAction ==
    [][ (Advancing /\ currentStep < N - 1) =>
            /\ currentStep' = currentStep + 1
            /\ ActionInvoked(tutorialSteps[currentStep + 1].action, tutDid') ]_vars

\* the bridge is answering a complete_tutorial call in the step now being taken
CompleteAnswered ==
    /\ tutQueue = <<>>
    /\ \E c \in tutPending : c.cmd = "complete_tutorial" /\ tutPending' = tutPending \ {c}

\* an advance at the last step leaves the index there and makes one bridge call,
\* complete_tutorial
LastAdvanceCompletes ==
    (Advancing /\ currentStep = N - 1) =>
        /\ currentStep' = N - 1
        /\ completeCalls' = completeCalls + 1
        /\ tutCalls' = tutCalls + 1
        /\ tutEmitted' = tutEmitted

\* C13 (as stated): an advance at the last step leaves the step index at N-1, invokes
\* complete_tutorial and nothing else, and the tutorialComplete event is emitted to
\* the parent, whatever the bridge answers.
C13_LastAdvanceCompletesAndEmits ==
    [][ /\ LastAdvanceCompletes
        /\ CompleteAnswered => /\ tutEmitted' = tutEmitted + 1
                               /\ currentStep' = currentStep ]_vars

\* C13 (amended): an advance at the last step leaves the step index at N-1 and invokes
\* complete_tutorial and nothing else; tutorialComplete is emitted once the bridge
\* acknowledges that call, and not at all if the call fails.
C13_LastAdvanceCompletesEmitsOnAck ==
    [][ /\ LastAdvanceCompletes
        /\ CompleteAnswered => /\ tutEmitted' = tutEmitted + (IF tutAnswered'.ok THEN 1 ELSE 0)
                               /\ currentStep' = currentStep
                               /\ tutCalls' = tutCalls ]_vars

\* the last step was advanced from, the bridge acknowledged, the parent was told
C13_Witness ==
    /\ currentStep = N - 1
    /\ completeCalls >= 1
    /\ tutAnswered = [cmd |-> "complete_tutorial", ok |-> TRUE]
    /\ tutDid = <<"tutorialComplete">>
    /\ tutEmitted = 1

\* C14 (as stated): from step 0, once advance has been called N-1 times (and retreat
\* never), the machine is at the last step and complete_tutorial has been triggered
\* exactly once.
C14_CompletionAfterNMinus1Advances ==
    (advanceCalls = N - 1 /\ retreatCalls = 0) =>
        (currentStep = N - 1 /\ completeCalls = 1)

\* C14 (amended): from step 0, with retreat never called, N-1 advances bring the machine
\* to the last step without triggering complete_tutorial; it is the N-th advance that
\* triggers it, exactly once.
C14_CompletionOnNthAdvance ==
    retreatCalls = 0 =>
        /\ advanceCalls <= N - 1 => (currentStep = advanceCalls /\ completeCalls = 0)
        /\ advanceCalls = N      => (currentStep = N - 1 /\ completeCalls = 1)

\* N advances and no retreat: the machine is at the last step and has asked once
C14_Witness ==
    /\ advanceCalls = N
    /\ retreatCalls = 0
    /\ currentStep = N - 1
    /\ completeCalls = 1

\* where a touch that began at step s and moved d (start minus end) should leave the machine
AfterSwipe(s, d) ==
    IF d > SwipeThreshold THEN (IF s < N - 1 THEN s + 1 ELSE s)
    ELSE IF d < -SwipeThreshold THEN (IF s > 0 THEN s - 1 ELSE 0)
    ELSE s

\* C15: a single touch that ends 51 units above its start advances the machine by
\* exactly one step, one of 49 units either way moves nothing, one of 51 units below
\* retreats by exactly one step and never below 0; sideways displacement counts for
\* nothing.
C15_SwipeMovesOneStep ==
    (tutEvent.type = "touchend" /\ tutQueue = <<>>) =>
        currentStep = AfterSwipe(stepAtEvent, tutEvent.y0 - tutEvent.y)

\* C16: prevStep takes one off the step index when it is above 0 and leaves it alone
\* at 0; it calls no bridge command, invokes no step action and emits no event.
C16_RetreatStepsBackQuietly ==
    [][ Retreating =>
            /\ currentStep' = (IF currentStep > 0 THEN currentStep - 1 ELSE 0)
            /\ tutDid' = <<"prevStep">>
            /\ tutCalls' = tutCalls
            /\ tutPending' = tutPending
            /\ tutEmitted' = tutEmitted
            /\ tutUnhandled' = tutUnhandled ]_vars

\* prevStep has run at step 0, which an earlier retreat had come back to
C16_Witness ==
    /\ tutDid = <<"prevStep">>
    /\ stepBefore = 0
    /\ currentStep = 0
    /\ advanceCalls >= 1
    /\ retreatCalls >= 2

\* C17: whatever taps and swipes arrive, the step index stays within 0 .. N-1.
C17_StepIndexInRange ==
    currentStep \in 0..(N - 1)

\* the machine has been pushed at both ends: advanced at the last step, retreated at step 0
C17_Witness ==
    /\ advanceCalls >= N
    /\ completeCalls >= 1
    /\ retreatCalls >= 1
    /\ tutDid = <<"prevStep">>
    /\ stepBefore = 0

\* C18: whichever bridge call fails, the failure is caught where the call is made and
\* never becomes an unhandled rejection; here, the tutorial's calls set_as_launcher
\* and complete_tutorial.
C18_NoUnhandledRejection ==
    ~tutUnhandled

(***************************************************************************)
(* The root view's teardown (+page.svelte, onMount's cleanup).             *)
(*                                                                         *)
(* While the view is mounted its surface takes input and its three         *)
(* intervals tick.  The function onMount returns runs when the view is     *)
(* taken down; after that the surface is gone and no DOM event reaches     *)
(* the handlers, but whatever timer is still set runs when it is due.      *)
(***************************************************************************)

\* interval callbacks per run
MaxIntervalRuns == 2

\* clearTimeInterval / clearWeatherInterval / clearBatteryInterval
clearRootInterval(live, which) == live \ {which}

\* a live interval's period elapses: its callback runs and stores the new value
RootIntervalFire(which) ==
    /\ which \in intervals
    /\ intervalRuns < MaxIntervalRuns
    /\ intervalRuns' = intervalRuns + 1
    /\ lastEvent' = "interval"
    /\ fired' = <<>>
    /\ UNCHANGED <<mounted, intervals>>
    /\ UNCHANGED <<isFirstRun, firstRunCheck, longPressTimer, isLongPressing, timers,
                   calls, device, pointers, clickPending, multi, raced, released>>
    /\ UNCHANGED <<providerVars, tutorialVars, speechVars, resultsVars>>

\* the cleanup onMount returned: the three clear functions, and nothing else.
\* The surface goes away with whatever was held on it, and a click still owed
\* has nowhere to go.
onDestroy ==
    /\ mounted
    /\ mounted' = FALSE
    /\ intervals' = clearRootInterval(clearRootInterval(clearRootInterval(
                        intervals, "time"), "weather"), "battery")
    /\ clickPending' = FALSE
    /\ lastEvent' = "destroy"
    /\ fired' = <<>>
    /\ UNCHANGED <<intervalRuns>>
    /\ UNCHANGED <<isFirstRun, firstRunCheck, longPressTimer, isLongPressing, timers,
                   calls, device, pointers, multi, raced, released>>
    /\ UNCHANGED <<providerVars, tutorialVars, speechVars, resultsVars>>

TeardownInit == GestureInit

TeardownNext ==
    \/ mounted /\ \E d \in Devices, p \in Pointers : PressDown(d, p)
    \/ mounted /\ \E p \in Pointers : PressUp(p)
    \/ mounted /\ PressCancel
    \/ mounted /\ Click
    \/ \E id \in TimerIds : TimerFire(id)
    \/ Tick
    \/ \E result \in BOOLEAN : IsFirstRunResolved(result)
    \/ mounted /\ handleTutorialComplete
    \/ \E which \in RootIntervals : RootIntervalFire(which)
    \/ onDestroy

SpecTeardown == TeardownInit /\ [][TeardownNext]_vars

\* C19: once the root view is torn down, the pending long-press timer and all three
\* provider intervals are cancelled, and no timer callback runs after the teardown.
C19_TeardownCancelsEveryTimer ==
    ~mounted =>
        /\ timers = EmptyFn
        /\ intervals = {}
        /\ lastEvent \notin {"timeout", "interval"}

(***************************************************************************)
(* The speech component (SpeechToText.svelte) and the text-entry overlay   *)
(* it mounts (PredictiveTextInput.svelte).                                 *)
(*                                                                         *)
(* The root view drives the component through handleLongPressStart,        *)
(* handleLongPressEnd and showTextInputField; the user types into the      *)
(* overlay, submits and cancels.  An async function runs up to its await   *)
(* in the step that calls it and goes on in the step the bridge answers.   *)
(* Text is a sequence of characters, so that trim() is computed.           *)
(***************************************************************************)

\* calls made on the two components from outside, per run
MaxSpeechOps == 5

\* <SpeechToText activateOnLongPress={true}> in the root view
activateOnLongPress == TRUE

\* bind:this={predictiveTextInput}: the overlay is mounted with the component
predictiveTextInput == TRUE

Whitespace == {" ", "\n"}

\* what the user may have typed
Texts == { <<>>, <<" ", "\n">>, <<"h", "i">>, <<" ", "h", "i", " ">> }

\* what the bridge returns: stop_recording's result.text, process_text_input's response
Transcript == <<"y", "o">>
Response   == "pong"

RECURSIVE trimStart(_)
trimStart(str) ==
    IF str # <<>> /\ Head(str) \in Whitespace THEN trimStart(Tail(str)) ELSE str

RECURSIVE trimEnd(_)
trimEnd(str) ==
    IF str # <<>> /\ str[Len(str)] \in Whitespace
    THEN trimEnd(SubSeq(str, 1, Len(str) - 1))
    ELSE str

\* String.prototype.trim
trim(str) == trimEnd(trimStart(str))

\* an event's detail: the fields it carries and their values
Detail(type, fields, text, response, error) ==
    [type |-> type, fields |-> fields, text |-> text, response |-> response,
     error |-> error]

\* the two components' state as their functions see it
S == [ isModelLoaded |-> isModelLoaded, isRecording |-> isRecording,
       transcription |-> transcription, errorMessage |-> errorMessage,
       isProcessing |-> isProcessing, showTranscription |-> showTranscription,
       showTextInput |-> showTextInput, inputText |-> inputText,
       isVisible |-> isVisible, predictions |-> predictions,
       isLoading |-> isLoading, selectedIndex |-> selectedIndex,
       predictionTimeoutHandler |-> predictionTimeoutHandler,
       suggestPending |-> suggestPending, suggestCalls |-> suggestCalls,
       invalidated |-> FALSE, pending |-> sttPending, calls |-> sttCalls,
       emitted |-> sttEmitted, overlayEmitted |-> textEmitted, did |-> <<>> ]

\* await invoke(cmd, {text}): the call goes out, the function waits for the answer
invokeWith(s, cmd, text) ==
    [s EXCEPT !.pending = @ \cup {[id |-> s.calls + 1, cmd |-> cmd, text |-> text]},
              !.calls = @ + 1,
              !.did = Append(@, cmd)]

\* SpeechToText's dispatch: the event goes to the parent
dispatchToParent(s, event) ==
    [s EXCEPT !.emitted = Append(@, event), !.did = Append(@, event.type)]

\* SpeechToText: handleTextSubmitted(event)
handleTextSubmitted(s, event) ==
    LET text     == event.text
        response == event.response
        s1 == dispatchToParent(s, Detail("textSubmitted",
                                         event.fields \cap {"text", "response"},
                                         text, response, ""))
    IN  [s1 EXCEPT !.showTextInput = FALSE, !.showTranscription = FALSE]

\* SpeechToText: handleInputCancelled()
handleInputCancelled(s) == [s EXCEPT !.showTextInput = FALSE]

\* the overlay's dispatch: SpeechToText's on:textSubmitted / on:inputCancelled
\* listener runs before dispatch returns
dispatchToSpeech(s, event) ==
    LET s1 == [s EXCEPT !.overlayEmitted = Append(@, event),
                        !.did = Append(@, event.type)]
    IN  IF event.type = "textSubmitted" THEN handleTextSubmitted(s1, event)
        ELSE handleInputCancelled(s1)

startRecording_NoReadyCheck(s) ==
    invokeWith(s, "start_recording", <<>>)

\* startRecording up to its await
startRecording(s) ==
    IF ~s.isModelLoaded
    THEN [s EXCEPT !.errorMessage =
                       "Speech recognition not initialized yet. Please wait."]
    ELSE invokeWith(s, "start_recording", <<>>)

startRecordingResumes_IgnoresFailure(s, ok) ==
    dispatchToParent([s EXCEPT !.isRecording = TRUE,
                               !.errorMessage = "",
                               !.showTranscription = FALSE,
                               !.transcription = <<>>],
                     Detail("recordingStarted", {}, <<>>, "", ""))

\* startRecording after its await
startRecordingResumes(s, ok) ==
    IF ok
    THEN dispatchToParent([s EXCEPT !.isRecording = TRUE,
                                    !.errorMessage = "",
                                    !.showTranscription = FALSE,
                                    !.transcription = <<>>],
                          Detail("recordingStarted", {}, <<>>, "", ""))
    ELSE [s EXCEPT !.errorMessage = "Failed to start recording"]

stopRecording_NoGuard(s) ==
    invokeWith([s EXCEPT !.isRecording = FALSE, !.isProcessing = TRUE],
               "stop_recording", <<>>)

\* stopRecording up to its await
stopRecording(s) ==
    IF ~s.isRecording THEN s
    ELSE invokeWith([s EXCEPT !.isRecording = FALSE, !.isProcessing = TRUE],
                    "stop_recording", <<>>)

stopRecordingResumes_StuckOnFailure(s, ok) ==
    IF ok
    THEN dispatchToParent([s EXCEPT !.transcription = Transcript,
                                    !.showTranscription = TRUE,
                                    !.isProcessing = FALSE],
                          Detail("recordingStopped", {"text"}, Transcript, "", ""))
    ELSE dispatchToParent([s EXCEPT !.errorMessage = "Transcription failed"],
                          Detail("recordingStopped", {"error"}, <<>>, "",
                                 "Transcription failed"))

\* stopRecording after its await
stopRecordingResumes(s, ok) ==
    IF ok
    THEN dispatchToParent([s EXCEPT !.transcription = Transcript,
                                    !.showTranscription = TRUE,
                                    !.isProcessing = FALSE],
                          Detail("recordingStopped", {"text"}, Transcript, "", ""))
    ELSE dispatchToParent([s EXCEPT !.errorMessage = "Transcription failed",
                                    !.isProcessing = FALSE],
                          Detail("recordingStopped", {"error"}, <<>>, "",
                                 "Transcription failed"))

\* onMount after await invoke("initialize_stt")
onMountResumes(s, ok) ==
    IF ok THEN [s EXCEPT !.isModelLoaded = TRUE]
    ELSE [s EXCEPT !.errorMessage = "Failed to initialize speech recognition"]

handleLongPressStart(s) ==
    IF activateOnLongPress /\ ~s.isRecording /\ ~s.isProcessing
    THEN startRecording(s)
    ELSE s

handleLongPressEnd(s) ==
    IF activateOnLongPress /\ s.isRecording THEN stopRecording(s) ELSE s

\* the overlay's show(); the focus it schedules changes no state.  An assignment
\* that changes isVisible invalidates it for the reactive block.
show(s) == [s EXCEPT !.isVisible = TRUE, !.invalidated = @ \/ ~s.isVisible]

\* the overlay's hide()
hide(s) == [s EXCEPT !.isVisible = FALSE, !.invalidated = @ \/ s.isVisible,
                     !.inputText = <<>>, !.predictions = <<>>,
                     !.selectedIndex = -1]

showTextInputField(s) ==
    IF predictiveTextInput THEN [show(s) EXCEPT !.showTextInput = TRUE] ELSE s

\* the overlay's handleSubmit up to its await
handleSubmit(s) ==
    IF trim(s.inputText) = <<>> THEN s
    ELSE invokeWith(s, "process_text_input", trim(s.inputText))

\* the overlay's handleSubmit after its await
handleSubmitResumes(s, ok) ==
    IF ok
    THEN LET s1 == dispatchToSpeech(s, Detail("textSubmitted", {"text", "response"},
                                              trim(s.inputText), Response, ""))
         IN  hide([s1 EXCEPT !.inputText = <<>>])
    ELSE dispatchToSpeech(s, Detail("textSubmitted", {"error"}, <<>>, "",
                                    "Failed to process"))

\* the overlay's handleCancel
handleCancel(s) == dispatchToSpeech(hide(s), Detail("inputCancelled", {}, <<>>, "", ""))

Min(a, b) == IF a < b THEN a ELSE b
Max(a, b) == IF a > b THEN a ELSE b

\* the overlay's handleKeydown(event), event.key = key
handleKeydown(s, key) ==
    IF key = "Escape" THEN handleCancel(s)
    ELSE IF Len(s.predictions) > 0
    THEN CASE key = "ArrowDown" ->
                [s EXCEPT !.selectedIndex = Min(@ + 1, Len(s.predictions) - 1)]
           [] key = "ArrowUp" ->
                [s EXCEPT !.selectedIndex = Max(@ - 1, -1)]
           [] key = "Enter" /\ s.selectedIndex >= 0 ->
                [s EXCEPT !.inputText = s.predictions[s.selectedIndex + 1],
                          !.predictions = <<>>,
                          !.selectedIndex = -1]
           [] OTHER -> s
    ELSE s

\* String.prototype.toLowerCase, on the letters the suggestions use
toLowerCase(str) ==
    [i \in 1..Len(str) |-> CASE str[i] = "H" -> "h" [] OTHER -> str[i]]

\* what Suggest.google(query) may answer with: a rejection, no suggestion, or a list
\* that holds the query itself in another case
SuggestAnswers(query) ==
    { [ok |-> FALSE, list |-> <<>>],
      [ok |-> TRUE,  list |-> <<>>],
      [ok |-> TRUE,  list |-> << [query EXCEPT ![1] = IF @ = "h" THEN "H" ELSE @],
                                 Append(query, "t"), Append(query, "s") >>] }

\* getPredictions up to its await
getPredictions(s) ==
    IF trim(s.inputText) = <<>> \/ Len(s.inputText) < 2
    THEN [s EXCEPT !.predictions = <<>>]
    ELSE [s EXCEPT !.isLoading = TRUE,
                   !.suggestPending = @ \cup {[id |-> s.suggestCalls + 1,
                                               query |-> trim(s.inputText)]},
                   !.suggestCalls = @ + 1]

\* getPredictions after its await: query is the const the call was made with
getPredictionsResumes(s, query, answer) ==
    LET keep(suggestion) == toLowerCase(suggestion) # toLowerCase(query)
        s1 == IF answer.ok
              THEN [s EXCEPT !.predictions = SelectSeq(answer.list, keep),
                             !.selectedIndex = -1]
              ELSE [s EXCEPT !.predictions = <<>>]
    IN  [s1 EXCEPT !.isLoading = FALSE]

\* selectPrediction(prediction); the focus it schedules changes no state
selectPrediction(s, prediction) ==
    [s EXCEPT !.inputText = prediction, !.predictions = <<>>, !.selectedIndex = -1]

\* the reactive block  $: { if (isVisible) { clearTimeout; setTimeout(getPredictions) } }
\* It reads isVisible and predictionTimeoutHandler, so it runs in the update that
\* follows a function that changed isVisible.
scheduleGetPredictions(s) ==
    IF s.invalidated /\ s.isVisible THEN TRUE ELSE s.predictionTimeoutHandler

\* the root view's handleTap, as the speech component sees it
handleTapReaches(s) ==
    IF isLongPressing \/ isFirstRun THEN s ELSE showTextInputField(s)

\* the listeners of a click on the overlay's Cancel button, in dispatch order: the
\* button's on:click, then on:click of <main>, which the overlay is inside of
cancelClick(s) == handleTapReaches(handleCancel(s))

\* write a function's result back; step names the function that ran
SetS(s, step) ==
    /\ isModelLoaded'     = s.isModelLoaded
    /\ isRecording'       = s.isRecording
    /\ transcription'     = s.transcription
    /\ errorMessage'      = s.errorMessage
    /\ isProcessing'      = s.isProcessing
    /\ showTranscription' = s.showTranscription
    /\ showTextInput'     = s.showTextInput
    /\ inputText'         = s.inputText
    /\ isVisible'         = s.isVisible
    /\ predictions'       = s.predictions
    /\ isLoading'         = s.isLoading
    /\ selectedIndex'     = s.selectedIndex
    /\ predictionTimeoutHandler' = scheduleGetPredictions(s)
    /\ suggestPending'    = s.suggestPending
    /\ suggestCalls'      = s.suggestCalls
    /\ sttPending'        = s.pending
    /\ sttCalls'          = s.calls
    /\ sttEmitted'        = s.emitted
    /\ textEmitted'       = s.overlayEmitted
    /\ sttStep'           = step
    /\ sttDid'            = s.did
    /\ sttSilent'         = IF s.did = <<>> /\ step \in {"handleSubmit", "stopRecording"}
                            THEN sttSilent \cup {step}
                            ELSE sttSilent
    /\ sttLongPress'      = CASE step = "handleLongPressStart" -> "start"
                              [] step = "handleLongPressEnd"   -> "end"
                              [] OTHER                         -> sttLongPress

\* one more call from outside
SpeechOp ==
    /\ sttOps < MaxSpeechOps
    /\ sttOps' = sttOps + 1
    /\ UNCHANGED <<sttAnswered>>

\* the root view reports a long press
LongPressStart ==
    /\ SpeechOp
    /\ SetS(handleLongPressStart(S), "handleLongPressStart")
    /\ UNCHANGED nonSpeechVars

\* the root view reports the end of a long press
LongPressEnd ==
    /\ SpeechOp
    /\ SetS(handleLongPressEnd(S), "handleLongPressEnd")
    /\ UNCHANGED nonSpeechVars

\* stopRecording is called, whatever state the component is in
StopRecording ==
    /\ SpeechOp
    /\ SetS(stopRecording(S), "stopRecording")
    /\ UNCHANGED nonSpeechVars

\* the root view reports a tap
ShowTextInput ==
    /\ SpeechOp
    /\ SetS(showTextInputField(S), "showTextInputField")
    /\ UNCHANGED nonSpeechVars

\* the user edits the textarea of the overlay (bind:value={inputText})
TypeText(text) ==
    /\ SpeechOp
    /\ isVisible
    /\ text # inputText
    /\ SetS([S EXCEPT !.inputText = text], "input")
    /\ UNCHANGED nonSpeechVars

\* the overlay's form is submitted
SubmitText ==
    /\ SpeechOp
    /\ isVisible
    /\ SetS(handleSubmit(S), "handleSubmit")
    /\ UNCHANGED nonSpeechVars

\* Escape is pressed in the overlay: handleKeydown calls handleCancel
CancelText ==
    /\ SpeechOp
    /\ isVisible
    /\ SetS(handleKeydown(S, "Escape"), "handleCancel")
    /\ UNCHANGED nonSpeechVars

\* the overlay's Cancel button is clicked
CancelClick ==
    /\ SpeechOp
    /\ isVisible
    /\ SetS(cancelClick(S), "cancelClick")
    /\ UNCHANGED nonSpeechVars

\* an arrow key or Enter is pressed in the overlay
KeyDown(key) ==
    /\ SpeechOp
    /\ isVisible
    /\ SetS(handleKeydown(S, key), "handleKeydown")
    /\ UNCHANGED nonSpeechVars

\* the pointer enters the i-th prediction button (i counted from 0)
MouseEnter(i) ==
    /\ SpeechOp
    /\ isVisible
    /\ i < Len(predictions)
    /\ SetS([S EXCEPT !.selectedIndex = i], "mouseenter")
    /\ UNCHANGED nonSpeechVars

\* the i-th prediction button is clicked: its listener runs, then the click reaches
\* on:click of <main>
SelectPrediction(i) ==
    /\ SpeechOp
    /\ isVisible
    /\ i < Len(predictions)
    /\ SetS(handleTapReaches(selectPrediction(S, predictions[i + 1])),
            "selectPrediction")
    /\ UNCHANGED nonSpeechVars

\* the timeout of the reactive block fires
PredictionTimeout ==
    /\ predictionTimeoutHandler
    /\ SetS(getPredictions([S EXCEPT !.predictionTimeoutHandler = FALSE]),
            "getPredictions")
    /\ UNCHANGED <<sttOps, sttAnswered>>
    /\ UNCHANGED nonSpeechVars

\* Suggest.google answers; getPredictions goes on
SuggestAnswer(c, answer) ==
    /\ c \in suggestPending
    /\ SetS(getPredictionsResumes([S EXCEPT !.suggestPending = @ \ {c}],
                                  c.query, answer),
            "Suggest.google")
    /\ UNCHANGED <<sttOps, sttAnswered>>
    /\ UNCHANGED nonSpeechVars

\* the bridge answers a call; the function that awaits it goes on
SpeechBridgeAnswers(c, ok) ==
    /\ c \in sttPending
    /\ LET s == [S EXCEPT !.pending = @ \ {c}]
       IN  SetS(CASE c.cmd = "initialize_stt"     -> onMountResumes(s, ok)
                  [] c.cmd = "start_recording"    -> startRecordingResumes(s, ok)
                  [] c.cmd = "stop_recording"     -> stopRecordingResumes(s, ok)
                  [] c.cmd = "process_text_input" -> handleSubmitResumes(s, ok),
                c.cmd)
    /\ sttAnswered' = [cmd |-> c.cmd, ok |-> ok]
    /\ UNCHANGED <<sttOps>>
    /\ UNCHANGED nonSpeechVars

\* the component once onMount has run up to its await: initialize_stt is out
SpeechStart ==
    /\ isModelLoaded     = FALSE
    /\ isRecording       = FALSE
    /\ transcription     = <<>>
    /\ errorMessage      = ""
    /\ isProcessing      = FALSE
    /\ showTranscription = FALSE
    /\ showTextInput     = FALSE
    /\ inputText         = <<>>
    /\ isVisible         = FALSE
    /\ predictions       = <<>>
    /\ isLoading         = FALSE
    /\ selectedIndex     = -1
    /\ predictionTimeoutHandler = FALSE
    /\ suggestPending    = {}
    /\ suggestCalls      = 0
    /\ sttPending        = {[id |-> 1, cmd |-> "initialize_stt", text |-> <<>>]}
    /\ sttCalls          = 1
    /\ sttEmitted        = <<>>
    /\ textEmitted       = <<>>
    /\ sttOps            = 0
    /\ sttStep           = "onMount"
    /\ sttDid            = <<"initialize_stt">>
    /\ sttSilent         = {}
    /\ sttAnswered       = NoAnswer
    /\ sttLongPress      = "none"

SpeechInit ==
    /\ SpeechStart /\ GestureStart /\ ProviderIdle /\ TutorialStart /\ RootMounted
    /\ ResultsStart

SpeechNext ==
    \/ LongPressStart
    \/ LongPressEnd
    \/ StopRecording
    \/ ShowTextInput
    \/ \E text \in Texts : TypeText(text)
    \/ SubmitText
    \/ CancelText
    \/ CancelClick
    \/ \E c \in sttPending, ok \in BOOLEAN : SpeechBridgeAnswers(c, ok)

SpecSpeech == SpeechInit /\ [][SpeechNext]_vars

\* the text-entry overlay with its predictions
PredictNext ==
    \/ ShowTextInput
    \/ \E text \in Texts : TypeText(text)
    \/ SubmitText
    \/ CancelText
    \/ CancelClick
    \/ \E key \in {"ArrowDown", "ArrowUp", "Enter"} : KeyDown(key)
    \/ \E i \in 0..(Len(predictions) - 1) : MouseEnter(i)
    \/ \E i \in 0..(Len(predictions) - 1) : SelectPrediction(i)
    \/ PredictionTimeout
    \/ \E c \in suggestPending : \E answer \in SuggestAnswers(c.query) :
           SuggestAnswer(c, answer)
    \/ \E c \in sttPending, ok \in BOOLEAN : SpeechBridgeAnswers(c, ok)

SpecPredict == SpeechInit /\ [][PredictNext]_vars

\* what the two components hold and have sent, history apart
SpeechState ==
    <<isModelLoaded, isRecording, transcription, errorMessage, isProcessing,
      showTranscription, showTextInput, inputText, isVisible, sttPending, sttCalls,
      sttEmitted, textEmitted>>

\* C20: a submission of empty or whitespace-only text invokes no process_text_input
\* and emits no textSubmitted; stopRecording called while isRecording is false invokes
\* no stop_recording, emits no recordingStopped and changes no state.
C20_PreconditionViolationsAreSilent ==
    [][ /\ (sttStep' = "handleSubmit" /\ sttOps' # sttOps /\ trim(inputText) = <<>>) =>
               /\ sttCalls' = sttCalls
               /\ sttPending' = sttPending
               /\ textEmitted' = textEmitted
               /\ sttEmitted' = sttEmitted
        /\ (sttStep' = "stopRecording" /\ sttOps' # sttOps /\ ~isRecording) =>
               SpeechState' = SpeechState ]_vars

\* both guards have been exercised: stopRecording has just returned without a
\* recording to stop, and whitespace-only text was submitted before and is still there
C20_Witness ==
    /\ sttSilent = {"handleSubmit", "stopRecording"}
    /\ sttStep = "stopRecording"
    /\ ~isRecording
    /\ isVisible
    /\ inputText # <<>>
    /\ trim(inputText) = <<>>
    /\ sttCalls = 1

\* initialize_stt has been answered, and with a failure
InitializeFailed ==
    /\ ~isModelLoaded
    /\ \A c \in sttPending : c.cmd # "initialize_stt"

\* the step now being taken is the bridge's answer to a call of cmd
Answering(cmd) ==
    \E c \in sttPending : c.cmd = cmd /\ sttPending' = sttPending \ {c}

\* the step now being taken is a call of the named function from outside
Calling(step) == sttOps' # sttOps /\ sttStep' = step

\* C21: once initialize_stt has failed, isModelLoaded stays false for good, and every
\* later start attempt sets an error message, invokes no start_recording and does
\* not set isRecording.
C21_FailedInitKeepsNotReady ==
    [][ InitializeFailed =>
            /\ ~isModelLoaded'
            /\ ~isRecording'
            /\ \A c \in sttPending' : c.cmd # "start_recording"
            /\ Calling("handleLongPressStart") =>
                   /\ errorMessage' # ""
                   /\ sttCalls' = sttCalls ]_vars

\* initialize_stt failed and a long press has since asked for a recording in vain
C21_Witness ==
    /\ InitializeFailed
    /\ sttStep = "handleLongPressStart"
    /\ errorMessage = "Speech recognition not initialized yet. Please wait."
    /\ sttCalls = 1
    /\ ~isRecording

\* the latest event of a sequence of events
Last(events) == events[Len(events)]

\* the step now being taken appends one event of the given type to the events
\* SpeechToText has dispatched to its parent
Emitting(type) ==
    /\ Len(sttEmitted') = Len(sttEmitted) + 1
    /\ SubSeq(sttEmitted', 1, Len(sttEmitted)) = sttEmitted
    /\ Last(sttEmitted').type = type

C23_StopRecordingRoundTrip ==
    [][ /\ ((Calling("stopRecording") \/ Calling("handleLongPressEnd")) /\ isRecording) =>
               /\ ~isRecording'
               /\ isProcessing'
               /\ sttCalls' = sttCalls + 1
               /\ sttPending' = sttPending \cup
                     {[id |-> sttCalls + 1, cmd |-> "stop_recording", text |-> <<>>]}
               /\ sttEmitted' = sttEmitted
        /\ Answering("stop_recording") =>
               /\ ~isProcessing'
               /\ Emitting("recordingStopped")
               /\ sttCalls' = sttCalls
               /\ IF sttAnswered'.ok
                  THEN /\ Last(sttEmitted').fields = {"text"}
                       /\ Last(sttEmitted').text = Transcript
                       /\ transcription' = Transcript
                  ELSE /\ Last(sttEmitted').fields = {"error"}
                       /\ Last(sttEmitted').error # ""
                       /\ errorMessage' = Last(sttEmitted').error ]_vars

\* a recording was started, stopped by the release, and the transcription failed
C23_Witness ==
    /\ sttAnswered = [cmd |-> "stop_recording", ok |-> FALSE]
    /\ sttStep = "stop_recording"
    /\ sttLongPress = "end"
    /\ Len(sttEmitted) = 2
    /\ sttEmitted[1].type = "recordingStarted"
    /\ sttEmitted[2].type = "recordingStopped"
    /\ sttEmitted[2].fields = {"error"}
    /\ ~isRecording
    /\ ~isProcessing
    /\ sttPending = {}

\* C24: when process_text_input fails, the textSubmitted event the overlay emits carries
\* an error field, and the textSubmitted event SpeechToText re-emits for it to its
\* parent still carries that error.
C24_SubmitFailureReachesParent ==
    [][ (Answering("process_text_input") /\ ~sttAnswered'.ok) =>
            /\ Len(textEmitted') = Len(textEmitted) + 1
            /\ Last(textEmitted').type = "textSubmitted"
            /\ "error" \in Last(textEmitted').fields
            /\ Last(textEmitted').error # ""
            /\ Emitting("textSubmitted")
            /\ "error" \in Last(sttEmitted').fields
            /\ Last(sttEmitted').error = Last(textEmitted').error ]_vars

\* a call of cmd is out and unanswered
Outstanding(cmd) == \E c \in sttPending : c.cmd = cmd

\* C27: every recording a long press started is stopped once the press is released: in
\* no reachable state has the long-press-end been delivered last while the component
\* is recording and no stop_recording is out, the release before start_recording is
\* acknowledged included.
C27_ReleaseStopsTheRecording ==
    ~(sttLongPress = "end" /\ isRecording /\ ~Outstanding("stop_recording"))

\* the step now being taken invokes start_recording
InvokingStart ==
    /\ sttCalls' = sttCalls + 1
    /\ [id |-> sttCalls + 1, cmd |-> "start_recording", text |-> <<>>] \in sttPending'

\* C28: isRecording and isProcessing are never both true, and start_recording is never
\* invoked while a recording is active, while one is being transcribed, or while an
\* earlier start_recording is still unacknowledged.
C28_OneRecordingAtATime ==
    [][ /\ ~(isRecording' /\ isProcessing')
        /\ InvokingStart =>
               /\ ~isRecording
               /\ ~isProcessing
               /\ ~Outstanding("start_recording") ]_vars

(***************************************************************************)
(* The results page (ResultPage.svelte).                                   *)
(*                                                                         *)
(* The parent calls show(query) and hide(); the user closes the page or    *)
(* opens a result's link.  fetchResults and openLink run up to their await *)
(* in the step that calls them and go on when the bridge answers.  A       *)
(* search result is stood for by the query it answers.                     *)
(***************************************************************************)

\* calls made on the page from outside, per run
MaxResultOps == 4

\* what the parent may pass to show()
Queries == { <<>>, <<" ">>, <<"c", "a", "t">>, <<"d", "o", "g">> }

\* what fetch_search_results may answer to a query: a failure, no results, one result
SearchAnswers(query) ==
    { [ok |-> FALSE, list |-> <<>>],
      [ok |-> TRUE,  list |-> <<>>],
      [ok |-> TRUE,  list |-> <<query>>] }

\* what open_link may answer
LinkAnswers == { [ok |-> FALSE, list |-> <<>>], [ok |-> TRUE, list |-> <<>>] }

\* the page's state as its functions see it
R == [ query |-> resultsQuery, isVisible |-> resultsVisible, results |-> results,
       isLoading |-> resultsLoading, errorMessage |-> resultsError,
       pending |-> resultsPending, calls |-> resultsCalls, closed |-> resultsClosed ]

\* await invoke(cmd, { query } / { url })
invokeFor(r, cmd, arg) ==
    [r EXCEPT !.pending = @ \cup {[id |-> r.calls + 1, cmd |-> cmd, arg |-> arg]},
              !.calls = @ + 1]

\* fetchResults up to its await
fetchResults(r) ==
    IF trim(r.query) = <<>> THEN r
    ELSE invokeFor([r EXCEPT !.isLoading = TRUE, !.errorMessage = ""],
                   "fetch_search_results", trim(r.query))

\* fetchResults after its await: try, catch, finally
fetchResultsResumes(r, answer) ==
    LET r1 == IF answer.ok
              THEN IF Len(answer.list) = 0
                   THEN [r EXCEPT !.results = answer.list,
                                  !.errorMessage =
                                      "No results found. Please try a different search."]
                   ELSE [r EXCEPT !.results = answer.list]
              ELSE [r EXCEPT !.errorMessage = "Failed to fetch results",
                             !.results = <<>>]
    IN  [r1 EXCEPT !.isLoading = FALSE]

\* the page's show(searchQuery)
resultsShow(r, searchQuery) ==
    fetchResults([r EXCEPT !.query = searchQuery, !.isVisible = TRUE])

\* the page's hide()
resultsHide(r) == [r EXCEPT !.isVisible = FALSE, !.results = <<>>]

handleClose(r) == [resultsHide(r) EXCEPT !.closed = @ + 1]

\* openLink up to its await
openLink(r, url) == invokeFor(r, "open_link", url)

\* openLink after its await
openLinkResumes(r, answer) ==
    IF answer.ok THEN r ELSE [r EXCEPT !.errorMessage = "Failed to open link"]

\* write a function's result back; step names the function that ran
SetR(r, step) ==
    /\ resultsQuery'   = r.query
    /\ resultsVisible' = r.isVisible
    /\ results'        = r.results
    /\ resultsLoading' = r.isLoading
    /\ resultsError'   = r.errorMessage
    /\ resultsPending' = r.pending
    /\ resultsCalls'   = r.calls
    /\ resultsClosed'  = r.closed
    /\ resultsStep'    = step

\* one more call from outside
ResultsOp ==
    /\ resultsOps < MaxResultOps
    /\ resultsOps' = resultsOps + 1
    /\ UNCHANGED <<resultsAnswered>>

\* the parent calls show(query)
ShowResults(query) ==
    /\ ResultsOp
    /\ SetR(resultsShow(R, query), "show")
    /\ resultsLatest' = IF resultsShow(R, query).calls # resultsCalls
                        THEN [NoSearch EXCEPT !.id = resultsCalls + 1]
                        ELSE NoSearch
    /\ UNCHANGED nonResultsVars

\* the parent calls hide()
HideResults ==
    /\ ResultsOp
    /\ resultsVisible
    /\ SetR(resultsHide(R), "hide")
    /\ UNCHANGED <<resultsLatest>>
    /\ UNCHANGED nonResultsVars

\* the close button of the page's header
CloseResults ==
    /\ ResultsOp
    /\ resultsVisible
    /\ SetR(handleClose(R), "handleClose")
    /\ UNCHANGED <<resultsLatest>>
    /\ UNCHANGED nonResultsVars

\* a result's title is clicked; the list is on show only when nothing is loading
\* and no message is up
OpenResult(i) ==
    /\ ResultsOp
    /\ resultsVisible
    /\ ~resultsLoading
    /\ resultsError = ""
    /\ i \in 1..Len(results)
    /\ SetR(openLink(R, results[i]), "openLink")
    /\ UNCHANGED <<resultsLatest>>
    /\ UNCHANGED nonResultsVars

\* the bridge answers one of the page's calls; the function that awaits it goes on
ResultsBridgeAnswers(c, answer) ==
    /\ c \in resultsPending
    /\ answer \in (IF c.cmd = "open_link" THEN LinkAnswers ELSE SearchAnswers(c.arg))
    /\ LET r == [R EXCEPT !.pending = @ \ {c}]
       IN  SetR(IF c.cmd = "open_link"
                THEN openLinkResumes(r, answer)
                ELSE fetchResultsResumes(r, answer),
                c.cmd)
    /\ resultsAnswered' = [cmd |-> c.cmd, ok |-> answer.ok, list |-> answer.list]
    /\ resultsLatest' = IF c.id = resultsLatest.id
                        THEN [id |-> c.id, done |-> TRUE, ok |-> answer.ok,
                              list |-> answer.list]
                        ELSE resultsLatest
    /\ UNCHANGED <<resultsOps>>
    /\ UNCHANGED nonResultsVars

ResultsInit ==
    /\ ResultsStart /\ GestureStart /\ ProviderIdle /\ TutorialStart /\ RootMounted
    /\ SpeechIdle

ResultsNext ==
    \/ \E query \in Queries : ShowResults(query)
    \/ HideResults
    \/ CloseResults
    \/ \E i \in 1..Len(results) : OpenResult(i)
    \/ \E c \in resultsPending :
          \E answer \in LinkAnswers \cup SearchAnswers(c.arg) :
              ResultsBridgeAnswers(c, answer)

SpecResults == ResultsInit /\ [][ResultsNext]_vars

\* the step now being taken is the bridge's answer to a fetch_search_results call
SearchAnswered ==
    \E c \in resultsPending :
        c.cmd = "fetch_search_results" /\ resultsPending' = resultsPending \ {c}

\* C25: when fetch_search_results fails the page ends with an empty results list, a
\* non-empty error message and isLoading false; when it succeeds with an empty list
\* the page shows a non-empty message too; when it succeeds with results,
\* errorMessage is empty.
C25_SearchOutcomeShown ==
    [][ SearchAnswered =>
            CASE ~resultsAnswered'.ok ->
                     results' = <<>> /\ resultsError' # "" /\ ~resultsLoading'
              [] resultsAnswered'.ok /\ resultsAnswered'.list = <<>> ->
                     resultsError' # ""
              [] OTHER ->
                     resultsError' = "" ]_vars

\* C26: while the tutorial is shown (isFirstRun true) the root view's gesture logic is
\* inert: isLongPressing is never true and no step calls handleLongPressStart,
\* handleLongPressEnd or showTextInputField, also when the answer to is_first_run
\* arrives after a press has begun.
C26_InertDuringTutorial ==
    [][ /\ isFirstRun' => ~isLongPressing'
        /\ isFirstRun => fired' = <<>> ]_vars

\* C29: when complete_tutorial fails, no tutorialComplete is emitted and the tutorial
\* stays where it is, still shown; an advance at the last step after that invokes
\* complete_tutorial again; and tutorialComplete is emitted only in the step in which
\* a complete_tutorial call is acknowledged.
C29_FailedCompletionCanBeRetried ==
    [][ /\ (CompleteAnswered /\ ~tutAnswered'.ok) =>
               /\ tutEmitted' = tutEmitted
               /\ currentStep' = currentStep
               /\ tutMounted' = tutMounted
               /\ tutUnhandled' = tutUnhandled
        /\ (Advancing /\ currentStep = N - 1 /\ tutAnswered.cmd = "complete_tutorial"
              /\ ~tutAnswered.ok) =>
               /\ Count(tutDid', "complete_tutorial") = 1
               /\ completeCalls' = completeCalls + 1
               /\ currentStep' = N - 1
        /\ tutEmitted' # tutEmitted =>
               /\ CompleteAnswered
               /\ tutAnswered'.ok
               /\ tutEmitted' = tutEmitted + 1 ]_vars

\* complete_tutorial failed, nothing was emitted, and an advance at the last step has
\* just invoked it again
C29_Witness ==
    /\ tutAnswered = [cmd |-> "complete_tutorial", ok |-> FALSE]
    /\ Count(tutDid, "complete_tutorial") = 1
    /\ stepBefore = N - 1
    /\ currentStep = N - 1
    /\ completeCalls >= 2
    /\ tutEmitted = 0
    /\ tutMounted

\* C30: in one run of the tutorial complete_tutorial is acknowledged at most once and
\* tutorialComplete is emitted at most once, however many advances arrive at the last
\* step before the first complete_tutorial call is acknowledged.
C30_CompletesAtMostOnce ==
    tutEmitted <= 1

\* C31: once every listener of a click on the overlay's Cancel button has run, the
\* overlay is hidden (isVisible false, showTextInput false), and a hidden overlay
\* stays hidden until the home surface is tapped again.
C31_CancelClickHidesOverlay ==
    [][ /\ sttStep' = "cancelClick" => ~isVisible' /\ ~showTextInput'
        /\ (~isVisible /\ sttStep' \notin {"cancelClick", "showTextInputField"})
              => ~isVisible' ]_vars

\* C32: between handlers, SpeechToText's showTextInput equals the overlay's isVisible:
\* after show, after cancel, after a successful and after a failed submission.
C32_ShowTextInputIsVisible ==
    showTextInput = isVisible

\* C33: when a process_text_input call is acknowledged, the textSubmitted event the
\* overlay dispatches carries the text that was sent with that call, whatever was
\* typed or submitted while the call was outstanding.
C33_SubmittedTextIsSentText ==
    [][ \A c \in sttPending :
            (/\ c.cmd = "process_text_input"
             /\ sttPending' = sttPending \ {c}
             /\ sttAnswered'.ok)
            => /\ Len(textEmitted') = Len(textEmitted) + 1
               /\ Last(textEmitted').type = "textSubmitted"
               /\ Last(textEmitted').text = c.text ]_vars

\* C34: in every state of the text-entry overlay selectedIndex lies between -1 and
\* predictions.length - 1, so it is -1 whenever there are no predictions.
C34_SelectedIndexInRange ==
    /\ selectedIndex >= -1
    /\ selectedIndex <= Len(predictions) - 1

\* what the page shows for one search answer on its own
MessageFor(answer) ==
    CASE ~answer.ok          -> "Failed to fetch results"
      [] answer.list = <<>>  -> "No results found. Please try a different search."
      [] OTHER               -> ""

\* C35: once every search has been answered, results and errorMessage are those of
\* the search the most recent show(query) started: an answer to an earlier query
\* does not replace the answer to a later one.
C35_LatestSearchWins ==
    (/\ resultsLatest.done
     /\ resultsStep = "fetch_search_results"
     /\ ~\E c \in resultsPending : c.cmd = "fetch_search_results")
    => /\ results = (IF resultsLatest.ok THEN resultsLatest.list ELSE <<>>)
       /\ resultsError = MessageFor(resultsLatest)

\* C36: whenever the results page is hidden its results list is empty: hide() empties
\* it and it stays empty until the next show(), a search answer that arrives after
\* hide() included.
C36_HiddenPageHasNoResults ==
    ~resultsVisible => results = <<>>

====
